---- MODULE Spec2Model ----
(***************************************************************************)
(* Outbound caller (src/agent.py): the job entrypoint that resolves the    *)
(* dial info from the job metadata, starts the conversation session,       *)
(* dials and binds the participant, and the five function tools of         *)
(* OutboundCaller.  Coroutines are cut at their await points: one action   *)
(* is the code that runs between two awaits.                               *)
(***************************************************************************)
EXTENDS Integers, Sequences, FiniteSets, TLC

\* ---------------------------------------------------------------- bounds
\* number of tool invocations the conversation policy makes in one call
MaxTools == 2
\* number of spoken turns the session starts on its own (not via generate_reply)
MaxTurns == 1

\* ------------------------------------------------------- metadata text
\* A metadata string is a sequence of tokens; each token stands for the
\* characters it spells.  DQ, SQ, SP, COLON are the characters of the
\* class ['"\s:] of the fallback regular expressions.
DQ == "\""
SQ == "'"
SP == " "
COLON == ":"
COMMA == ","
LBRACE == "{"
RBRACE == "}"
LBRACK == "["
RBRACK == "]"
NULLTOK == "null"

Keys == {"phone_number", "transfer_to", "prospect_name"}

PhoneA == "+15551234567"
PhoneB == "+15557654321"
EnvPhone == "+15550000001"
EnvTransfer == "+15550000002"

\* tokens all of whose characters are in [+\d]
DigitToks == {PhoneA, PhoneB, "5"}
\* tokens that are JSON numbers
NumberToks == {"5"}
\* tokens that may stand between two double quotes as a JSON string body
WordToks == Keys \cup {PhoneA, PhoneB, "5", "Asha", "note"}
SepToks == {DQ, SQ, SP, COLON}

\* values of a Python dict entry: a str, None, or no entry at all
PyNone == "<None>"
Missing == "<missing>"
EmptyDict == [k \in Keys |-> Missing]

\* Python truthiness of a dict value (str or None)
Falsy(v) == v \in {"", PyNone}

\* ---------------------------------------------------------- json.loads
Tok(t, i) == IF i >= 1 /\ i <= Len(t) THEN t[i] ELSE "<eof>"

RECURSIVE SkipWs(_, _)
SkipWs(t, i) == IF Tok(t, i) = SP THEN SkipWs(t, i + 1) ELSE i

\* a JSON string at position i: "" or "word"
ParseStr(t, i) ==
    IF Tok(t, i) # DQ THEN [ok |-> FALSE, val |-> "", next |-> i]
    ELSE IF Tok(t, i + 1) = DQ THEN [ok |-> TRUE, val |-> "", next |-> i + 2]
    ELSE IF Tok(t, i + 1) \in WordToks /\ Tok(t, i + 2) = DQ
         THEN [ok |-> TRUE, val |-> t[i + 1], next |-> i + 3]
    ELSE [ok |-> FALSE, val |-> "", next |-> i]

\* a member value: a string or null
ParseScalar(t, i) ==
    IF Tok(t, i) = NULLTOK THEN [ok |-> TRUE, val |-> PyNone, next |-> i + 1]
    ELSE ParseStr(t, i)

Bad == [ok |-> FALSE, type |-> "none", obj |-> EmptyDict, next |-> 0]

\* the members of an object, after "{" or ","; a repeated key keeps the last value
RECURSIVE ParseMembers(_, _, _)
ParseMembers(t, i, acc) ==
    LET k  == ParseStr(t, SkipWs(t, i))
        c  == SkipWs(t, k.next)
        v  == ParseScalar(t, SkipWs(t, c + 1))
        e  == SkipWs(t, v.next)
        a2 == IF k.val \in Keys THEN [acc EXCEPT ![k.val] = v.val] ELSE acc
    IN  IF ~k.ok \/ Tok(t, c) # COLON \/ ~v.ok THEN Bad
        ELSE IF Tok(t, e) = COMMA THEN ParseMembers(t, e + 1, a2)
        ELSE IF Tok(t, e) = RBRACE
             THEN [ok |-> TRUE, type |-> "object", obj |-> a2, next |-> e + 1]
        ELSE Bad

ParseValue(t, i) ==
    LET s == ParseStr(t, i)
    IN  IF Tok(t, i) = LBRACE
        THEN IF Tok(t, SkipWs(t, i + 1)) = RBRACE
             THEN [ok |-> TRUE, type |-> "object", obj |-> EmptyDict,
                   next |-> SkipWs(t, i + 1) + 1]
             ELSE ParseMembers(t, i + 1, EmptyDict)
        ELSE IF Tok(t, i) = LBRACK
        THEN IF Tok(t, SkipWs(t, i + 1)) = RBRACK
             THEN [ok |-> TRUE, type |-> "array", obj |-> EmptyDict,
                   next |-> SkipWs(t, i + 1) + 1]
             ELSE Bad
        ELSE IF Tok(t, i) = NULLTOK
        THEN [ok |-> TRUE, type |-> "null", obj |-> EmptyDict, next |-> i + 1]
        ELSE IF Tok(t, i) \in NumberToks
        THEN [ok |-> TRUE, type |-> "number", obj |-> EmptyDict, next |-> i + 1]
        ELSE IF s.ok
        THEN [ok |-> TRUE, type |-> "string", obj |-> EmptyDict, next |-> s.next]
        ELSE Bad

\* json.loads: one value, surrounded by optional whitespace, and nothing else;
\* ok = FALSE is json.JSONDecodeError
json_loads(t) ==
    LET v == ParseValue(t, SkipWs(t, 1))
    IN  IF v.ok /\ SkipWs(t, v.next) = Len(t) + 1 THEN v ELSE Bad

\* --------------------------------------------------------- re.search
\* re.search(r'<label>[\'"\s:]+([+\d]+)', text): the label, then one or more
\* separator characters, then the digits captured as group 1.
RECURSIVE SkipSep(_, _)
SkipSep(t, i) == IF Tok(t, i) \in SepToks THEN SkipSep(t, i + 1) ELSE i

MatchAt(t, label, i) ==
    /\ Tok(t, i) = label
    /\ SkipSep(t, i + 1) > i + 1
    /\ Tok(t, SkipSep(t, i + 1)) \in DigitToks

\* group(1) of the leftmost match, Missing when there is no match
re_search(label, t) ==
    LET hits == {i \in 1..Len(t) : MatchAt(t, label, i)}
    IN  IF hits = {} THEN Missing
        ELSE LET first == CHOOSE i \in hits : \A j \in hits : i <= j
             IN  t[SkipSep(t, first + 1)]

\* ------------------------------------------------- metadata resolution
\* the job metadata: nothing (None or ""), a str, or a dict passed as is
NoMeta == [kind |-> "none", text |-> <<>>, dict |-> EmptyDict]
StrMeta(t) == [kind |-> "str", text |-> t, dict |-> EmptyDict]
DictMeta(d) == [kind |-> "dict", text |-> <<>>, dict |-> d]

\* `if ctx.job.metadata:` -- None, "" and {} are falsy
MetaTruthy(md) ==
    \/ md.kind = "str" /\ md.text # <<>>
    \/ md.kind = "dict" /\ md.dict # EmptyDict

\* the except branch of json.loads: a dict with the keys the two searches found
regex_fallback(t) ==
    [k \in Keys |-> IF k = "phone_number" THEN re_search("phone_number", t)
                    ELSE IF k = "transfer_to" THEN re_search("transfer_to", t)
                    ELSE Missing]

\* lines 184-214: the value bound to dial_info before the defaults
parse_metadata(md) ==
    IF ~MetaTruthy(md) THEN [type |-> "object", obj |-> EmptyDict]
    ELSE IF md.kind = "dict" THEN [type |-> "object", obj |-> md.dict]
    ELSE LET v == json_loads(md.text)
         IN  IF v.ok THEN [type |-> v.type, obj |-> v.obj]
             ELSE [type |-> "object", obj |-> regex_fallback(md.text)]

\* the defaults written as `dial_info.get(key) or default`
apply_defaults_falsy(d, env) ==
    [k \in Keys |->
        IF d[k] # Missing /\ ~Falsy(d[k]) THEN d[k]
        ELSE IF k = "phone_number" THEN env.phone
        ELSE IF k = "transfer_to" THEN env.transfer
        ELSE "there"]

\* lines 216-222: a default for each key that is not in the dict
apply_defaults(d, env) ==
    [k \in Keys |->
        IF d[k] # Missing THEN d[k]
        ELSE IF k = "phone_number" THEN env.phone
        ELSE IF k = "transfer_to" THEN env.transfer
        ELSE "there"]

\* lines 184-231.  A value json.loads returns that is no dict (list, str,
\* number, None) makes `in`, the item assignment or dial_info.get raise.
resolve(md, env) ==
    LET v == parse_metadata(md)
    IN  IF v.type # "object" THEN [raised |-> TRUE, info |-> EmptyDict]
        ELSE [raised |-> FALSE, info |-> apply_defaults(v.obj, env)]

\* ------------------------------------------------------------- inputs
JsonObj(pairs) ==
    \* the text {"k":"v",...} of a sequence of <<key, value>> (value PyNone = null)
    LET Member(p) == <<DQ, p[1], DQ, COLON>> \o
                     (IF p[2] = PyNone THEN <<NULLTOK>>
                      ELSE IF p[2] = "" THEN <<DQ, DQ>> ELSE <<DQ, p[2], DQ>>)
        F[i \in 0..Len(pairs)] ==
            IF i = 0 THEN <<>>
            ELSE F[i - 1] \o (IF i > 1 THEN <<COMMA>> ELSE <<>>) \o Member(pairs[i])
    IN  <<LBRACE>> \o F[Len(pairs)] \o <<RBRACE>>

MetadataInputs ==
    { NoMeta,
      DictMeta([EmptyDict EXCEPT !["phone_number"] = PhoneA]),
      DictMeta([EmptyDict EXCEPT !["phone_number"] = ""]),
      DictMeta([EmptyDict EXCEPT !["transfer_to"] = PhoneB]),
      StrMeta(JsonObj(<< <<"phone_number", PhoneA>> >>)),
      StrMeta(JsonObj(<< <<"phone_number", PhoneA>>, <<"transfer_to", PhoneB>> >>)),
      StrMeta(JsonObj(<< <<"phone_number", PhoneA>>, <<"transfer_to", "">> >>)),
      StrMeta(JsonObj(<< <<"phone_number", PhoneA>>, <<"prospect_name", "Asha">> >>)),
      StrMeta(JsonObj(<< <<"transfer_to", PhoneB>> >>)),
      StrMeta(JsonObj(<< <<"phone_number", "">> >>)),
      StrMeta(JsonObj(<< <<"phone_number", PyNone>> >>)),
      StrMeta(JsonObj(<< <<"note", "Asha">> >>)),
      StrMeta(<<LBRACE, SP, RBRACE>>),
      StrMeta(<<LBRACK, RBRACK>>),
      StrMeta(<<DQ, "phone_number", DQ>>),
      StrMeta(<<"5">>),
      StrMeta(<<NULLTOK>>),
      \* {'phone_number': '+1555...', 'transfer_to': '+1555...'}  (a Python repr)
      StrMeta(<<LBRACE, SQ, "phone_number", SQ, COLON, SP, SQ, PhoneA, SQ, COMMA, SP,
                SQ, "transfer_to", SQ, COLON, SP, SQ, PhoneB, SQ, RBRACE>>),
      \* phone_number: +1555...
      StrMeta(<<"phone_number", COLON, SP, PhoneA>>),
      \* {"transfer_to":"+1555..."   (truncated)
      StrMeta(<<LBRACE, DQ, "transfer_to", DQ, COLON, DQ, PhoneB, DQ>>),
      \* {"phone_number":            (truncated before the number)
      StrMeta(<<LBRACE, DQ, "phone_number", DQ, COLON>>),
      StrMeta(<<"Asha">>) }

\* the metadata of the calls whose tools are explored
CallMetadata ==
    { NoMeta,
      StrMeta(JsonObj(<< <<"phone_number", PhoneA>> >>)),
      StrMeta(JsonObj(<< <<"phone_number", PhoneA>>, <<"transfer_to", PhoneB>> >>)) }

CallEnv == { [phone |-> "", transfer |-> ""], [phone |-> EnvPhone, transfer |-> EnvTransfer] }

EnvInputs ==
    { [phone |-> p, transfer |-> x] : p \in {"", EnvPhone}, x \in {"", EnvTransfer} }

\* -------------------------------------------------------------- state
VARIABLES
    metadata,     \* ctx.job.metadata
    env,          \* DEFAULT_PHONE_NUMBER, DEFAULT_TRANSFER_NUMBER
    pc,           \* where entrypoint is
    dial_info,    \* the dict bound at lines 184-222, held by the agent
    participant,  \* OutboundCaller.participant
    session,      \* the task of session.start
    far,          \* the dialed party: absent, joined (in the room), transferred
    queue,        \* speech handles not yet done; the head is current_speech
    nextHandle,   \* the next speech handle
    turns,        \* turns the session began on its own
    tools,        \* the tool invocations, in the order they were made
    reqs          \* how many requests of each kind were issued so far

vars == <<metadata, env, pc, dial_info, participant, session, far, queue,
          nextHandle, turns, tools, reqs>>

NoParticipant == "None"
PhoneUser == "phone_user"

ToolNames == {"transfer_call", "end_call", "look_up_availability",
              "confirm_appointment", "detected_answering_machine"}

IdleTool == [name |-> "none", pc |-> "idle", h |-> 0, result |-> "", via |-> "none"]

\* session_start: tasks of session.start created; dial: create_sip_participant;
\* shutdown: ctx.shutdown; reply: generate_reply; transfer: transfer_sip_participant;
\* delete: delete_room
NoReqs == [session_start |-> 0, dial |-> 0, shutdown |-> 0, reply |-> 0,
           transfer |-> 0, delete |-> 0]

Issue(r, kind) == [r EXCEPT ![kind] = @ + 1]

Fresh ==
    /\ pc = "start"
    /\ dial_info = EmptyDict
    /\ participant = NoParticipant
    /\ session = "none"
    /\ far = "absent"
    /\ queue = <<>>
    /\ nextHandle = 1
    /\ turns = 0
    /\ tools = [i \in 1..MaxTools |-> IdleTool]
    /\ reqs = NoReqs

\* a call, with its tools
Init == metadata \in CallMetadata /\ env \in CallEnv /\ Fresh

\* a job with any of the metadata inputs
InitResolve == metadata \in MetadataInputs /\ env \in EnvInputs /\ Fresh

\* -------------------------------------------------------- entrypoint
\* line 178: await ctx.connect()
Connect ==
    /\ pc = "start"
    /\ pc' = "connected"
    /\ UNCHANGED <<metadata, env, dial_info, participant, session, far, queue,
                   nextHandle, turns, tools, reqs>>

\* lines 184-231: the metadata becomes dial_info and the agent is built
Resolve ==
    /\ pc = "connected"
    /\ LET r == resolve(metadata, env)
       IN  /\ pc' = IF r.raised THEN "raised" ELSE "resolved"
           /\ dial_info' = r.info
    /\ UNCHANGED <<metadata, env, participant, session, far, queue,
                   nextHandle, turns, tools, reqs>>

\* the phone number tested before the session task is created
StartAndDial_number_first ==
    /\ pc = "resolved"
    /\ IF Falsy(dial_info["phone_number"])
       THEN /\ reqs' = Issue(reqs, "shutdown")
            /\ pc' = "returned"
            /\ UNCHANGED session
       ELSE /\ reqs' = Issue(Issue(reqs, "session_start"), "dial")
            /\ pc' = "dialing"
            /\ session' = "requested"
    /\ UNCHANGED <<metadata, env, dial_info, participant, far, queue,
                   nextHandle, turns, tools>>

\* the dial request sent without the session task having been created
StartAndDial_dial_first ==
    /\ pc = "resolved"
    /\ IF Falsy(dial_info["phone_number"])
       THEN /\ reqs' = Issue(reqs, "shutdown")
            /\ pc' = "returned"
       ELSE /\ reqs' = Issue(reqs, "dial")
            /\ pc' = "dialing"
    /\ UNCHANGED <<metadata, env, dial_info, participant, session, far, queue,
                   nextHandle, turns, tools>>

\* lines 248-263: create the task of session.start, then either shut the job
\* down for want of a number or send the dial request and wait for its answer
StartAndDial ==
    /\ pc = "resolved"
    /\ session' = "requested"
    /\ IF Falsy(dial_info["phone_number"])
       THEN /\ reqs' = Issue(Issue(reqs, "session_start"), "shutdown")
            /\ pc' = "returned"
       ELSE /\ reqs' = Issue(Issue(reqs, "session_start"), "dial")
            /\ pc' = "dialing"
    /\ UNCHANGED <<metadata, env, dial_info, participant, far, queue,
                   nextHandle, turns, tools>>

\* create_sip_participant returns: the call was answered
DialAnswered ==
    /\ pc = "dialing"
    /\ pc' = "joining"
    /\ far' = "joined"
    /\ UNCHANGED <<metadata, env, dial_info, participant, session, queue,
                   nextHandle, turns, tools, reqs>>

\* the TwirpError logged and entrypoint going on to wait for the participant
DialFailed_waits ==
    /\ pc = "dialing"
    /\ pc' = "joining"
    /\ UNCHANGED <<metadata, env, dial_info, participant, session, far, queue,
                   nextHandle, turns, tools, reqs>>

\* lines 278-284: create_sip_participant raises TwirpError
DialFailed ==
    /\ pc = "dialing"
    /\ pc' = "returned"
    /\ reqs' = Issue(reqs, "shutdown")
    /\ UNCHANGED <<metadata, env, dial_info, participant, session, far, queue,
                   nextHandle, turns, tools>>

\* lines 275-276: wait_for_participant returns, set_participant
set_participant ==
    /\ pc = "joining"
    /\ participant' = PhoneUser
    /\ pc' = "done"
    /\ UNCHANGED <<metadata, env, dial_info, session, far, queue,
                   nextHandle, turns, tools, reqs>>

\* ---------------------------------------------------- the session task
\* the task created at line 248 gets to run once entrypoint is suspended
SessionBegin ==
    /\ session = "requested"
    /\ pc \in {"dialing", "joining", "done", "returned"}
    /\ session' = "starting"
    /\ UNCHANGED <<metadata, env, pc, dial_info, participant, far, queue,
                   nextHandle, turns, tools, reqs>>

\* line 247: session.start does not return until the participant is available
SessionRunning ==
    /\ session = "starting"
    /\ far # "absent"
    /\ session' = "running"
    /\ UNCHANGED <<metadata, env, pc, dial_info, participant, far, queue,
                   nextHandle, turns, tools, reqs>>

\* the agent begins a spoken turn of its own
TurnStart ==
    /\ session = "running"
    /\ turns < MaxTurns
    /\ turns' = turns + 1
    /\ queue' = Append(queue, nextHandle)
    /\ nextHandle' = nextHandle + 1
    /\ UNCHANGED <<metadata, env, pc, dial_info, participant, session, far,
                   tools, reqs>>

\* the current speech finishes; the next one in the queue becomes current
SpeechDone ==
    /\ queue # <<>>
    /\ queue' = Tail(queue)
    /\ UNCHANGED <<metadata, env, pc, dial_info, participant, session, far,
                   nextHandle, turns, tools, reqs>>

\* ctx.session.current_speech: 0 is None
current_speech == IF queue = <<>> THEN 0 ELSE Head(queue)

\* a speech handle that was created and is no longer queued
IsDone(h) == h < nextHandle /\ \A k \in 1..Len(queue) : queue[k] # h

\* ---------------------------------------------------------- the tools
\* who can call a tool: the running session dispatches them; once entrypoint
\* has shut the job down the agent's methods are still there to be called
CanInvoke == session = "running" \/ pc = "returned"

\* invocations take the slots in order
NextSlot(i) ==
    /\ tools[i].pc = "idle"
    /\ \A j \in 1..(i - 1) : tools[j].pc # "idle"

\* who makes the call: the running session, or some other caller of the method
Caller == IF session = "running" THEN "session" ELSE "direct"

Started(name) == [IdleTool EXCEPT !.name = name, !.via = Caller]

\* a tool that ends at once: by a return value or by an exception
Returns(name, value) == [Started(name) EXCEPT !.pc = "done", !.result = value]
Raises(name, exc) == [Started(name) EXCEPT !.pc = "raised", !.result = exc]

\* the guard of lines 90-91 left out
NoDestination_unchecked == FALSE

\* lines 89-91: `if not transfer_to`
NoDestination == Falsy(dial_info["transfer_to"])

\* generate_reply called without await
AnnouncementAwaited_noawait(i) == TRUE

\* line 96: `await generate_reply(...)` resumes once the reply was played out
AnnouncementAwaited(i) == IsDone(tools[i].h)

\* the apology requested without await
ApologyAwaited_noawait(i) == TRUE

\* line 113: `await generate_reply(...)` of the apology
ApologyAwaited(i) == IsDone(tools[i].h)

\* hangup without waiting for current_speech
SpeechAwaited_noawait(i) == TRUE

\* lines 124-126: `if current_speech: await current_speech.done()`
SpeechAwaited(i) == IsDone(tools[i].h)

\* generate_reply: a new speech handle joins the queue
generate_reply(i, next_pc) ==
    /\ tools' = [tools EXCEPT ![i] =
          [(IF tools[i].pc = "idle" THEN Started("transfer_call") ELSE tools[i])
              EXCEPT !.pc = next_pc, !.h = nextHandle]]
    /\ queue' = Append(queue, nextHandle)
    /\ nextHandle' = nextHandle + 1
    /\ reqs' = Issue(reqs, "reply")

\* hangup shutting the job down instead of deleting the room
hangup_shutdown(i, name) ==
    /\ tools' = [tools EXCEPT ![i] =
          [(IF tools[i].pc = "idle" THEN Started(name) ELSE tools[i])
              EXCEPT !.pc = "await_delete"]]
    /\ reqs' = Issue(reqs, "shutdown")

\* lines 75-83: hangup sends the delete-room request
hangup(i, name) ==
    /\ tools' = [tools EXCEPT ![i] =
          [(IF tools[i].pc = "idle" THEN Started(name) ELSE tools[i])
              EXCEPT !.pc = "await_delete"]]
    /\ reqs' = Issue(reqs, "delete")

\* lines 85-98: transfer_call up to its first await
transfer_call(i) ==
    /\ CanInvoke /\ NextSlot(i)
    /\ IF NoDestination
       THEN /\ tools' = [tools EXCEPT ![i] = Returns("transfer_call", "cannot transfer call")]
            /\ UNCHANGED <<queue, nextHandle, reqs>>
       ELSE generate_reply(i, "await_announce")
    /\ UNCHANGED <<metadata, env, pc, dial_info, participant, session, far, turns>>

\* lines 100-108: the announcement is over; send the transfer request.  With no
\* participant bound, self.participant.identity raises inside the try block
\* and the handler of lines 111-115 asks for the apology.
transfer_request(i) ==
    /\ tools[i].name = "transfer_call" /\ tools[i].pc = "await_announce"
    /\ AnnouncementAwaited(i)
    /\ IF participant = NoParticipant
       THEN generate_reply(i, "await_apology")
       ELSE /\ tools' = [tools EXCEPT ![i].pc = "await_transfer"]
            /\ reqs' = Issue(reqs, "transfer")
            /\ UNCHANGED <<queue, nextHandle>>
    /\ UNCHANGED <<metadata, env, pc, dial_info, participant, session, far, turns>>

\* line 110: transfer_sip_participant returned
transfer_ok(i) ==
    /\ tools[i].name = "transfer_call" /\ tools[i].pc = "await_transfer"
    /\ tools' = [tools EXCEPT ![i].pc = "done", ![i].result = "None"]
    /\ far' = "transferred"
    /\ UNCHANGED <<metadata, env, pc, dial_info, participant, session,
                   queue, nextHandle, turns, reqs>>

\* the handler hanging up without the apology
transfer_failed_silent(i) ==
    /\ tools[i].name = "transfer_call" /\ tools[i].pc = "await_transfer"
    /\ tools' = [tools EXCEPT ![i].pc = "await_delete"]
    /\ reqs' = Issue(reqs, "delete")
    /\ UNCHANGED <<metadata, env, pc, dial_info, participant, session, far,
                   queue, nextHandle, turns>>

\* lines 111-115: transfer_sip_participant raised; ask for the apology
transfer_failed(i) ==
    /\ tools[i].name = "transfer_call" /\ tools[i].pc = "await_transfer"
    /\ generate_reply(i, "await_apology")
    /\ UNCHANGED <<metadata, env, pc, dial_info, participant, session, far, turns>>

\* line 116: the apology is over; hang up
transfer_hangup(i) ==
    /\ tools[i].name = "transfer_call" /\ tools[i].pc = "await_apology"
    /\ ApologyAwaited(i)
    /\ hangup(i, "transfer_call")
    /\ UNCHANGED <<metadata, env, pc, dial_info, participant, session, far,
                   queue, nextHandle, turns>>

\* lines 118-128: end_call up to its first await
end_call(i) ==
    /\ CanInvoke /\ NextSlot(i)
    /\ IF participant = NoParticipant
       THEN /\ tools' = [tools EXCEPT ![i] = Raises("end_call", "AttributeError")]
            /\ UNCHANGED reqs
       ELSE IF current_speech # 0
       THEN /\ tools' = [tools EXCEPT ![i] =
                    [Started("end_call") EXCEPT
                        !.pc = "await_speech", !.h = current_speech]]
            /\ UNCHANGED reqs
       ELSE hangup(i, "end_call")
    /\ UNCHANGED <<metadata, env, pc, dial_info, participant, session, far,
                   queue, nextHandle, turns>>

\* lines 126-128: the speech end_call waited for is over; hang up
end_call_hangup(i) ==
    /\ tools[i].name = "end_call" /\ tools[i].pc = "await_speech"
    /\ SpeechAwaited(i)
    /\ hangup(i, "end_call")
    /\ UNCHANGED <<metadata, env, pc, dial_info, participant, session, far,
                   queue, nextHandle, turns>>

\* detected_answering_machine saying goodbye before it hangs up
detected_answering_machine_waits(i) ==
    /\ CanInvoke /\ NextSlot(i)
    /\ IF participant = NoParticipant
       THEN /\ tools' = [tools EXCEPT ![i] =
                    Raises("detected_answering_machine", "AttributeError")]
            /\ UNCHANGED <<reqs, queue, nextHandle>>
       ELSE /\ tools' = [tools EXCEPT ![i] =
                    [Started("detected_answering_machine") EXCEPT
                        !.pc = "await_announce", !.h = nextHandle]]
            /\ queue' = Append(queue, nextHandle)
            /\ nextHandle' = nextHandle + 1
            /\ reqs' = Issue(reqs, "reply")
    /\ UNCHANGED <<metadata, env, pc, dial_info, participant, session, far, turns>>

\* lines 168-172
detected_answering_machine(i) ==
    /\ CanInvoke /\ NextSlot(i)
    /\ IF participant = NoParticipant
       THEN /\ tools' = [tools EXCEPT ![i] =
                    Raises("detected_answering_machine", "AttributeError")]
            /\ UNCHANGED reqs
       ELSE hangup(i, "detected_answering_machine")
    /\ UNCHANGED <<metadata, env, pc, dial_info, participant, session, far,
                   queue, nextHandle, turns>>

\* delete_room returned; the tool that called hangup returns with it
delete_returned(i) ==
    /\ tools[i].pc = "await_delete"
    /\ tools' = [tools EXCEPT ![i].pc = "done", ![i].result = "None"]
    /\ UNCHANGED <<metadata, env, pc, dial_info, participant, session, far,
                   queue, nextHandle, turns, reqs>>

\* lines 130-144: look_up_availability up to asyncio.sleep(3)
look_up_availability(i) ==
    /\ CanInvoke /\ NextSlot(i)
    /\ tools' = [tools EXCEPT ![i] =
          IF participant = NoParticipant
          THEN Raises("look_up_availability", "AttributeError")
          ELSE [Started("look_up_availability") EXCEPT !.pc = "sleeping"]]
    /\ UNCHANGED <<metadata, env, pc, dial_info, participant, session, far,
                   queue, nextHandle, turns, reqs>>

\* lines 145-147: the sleep is over
availability_returned(i) ==
    /\ tools[i].name = "look_up_availability" /\ tools[i].pc = "sleeping"
    /\ tools' = [tools EXCEPT ![i].pc = "done", ![i].result = "1pm,2pm,3pm"]
    /\ UNCHANGED <<metadata, env, pc, dial_info, participant, session, far,
                   queue, nextHandle, turns, reqs>>

\* confirm_appointment hanging up once the appointment is confirmed
confirm_appointment_hangs_up(i) ==
    /\ CanInvoke /\ NextSlot(i)
    /\ IF participant = NoParticipant
       THEN /\ tools' = [tools EXCEPT ![i] =
                    Raises("confirm_appointment", "AttributeError")]
            /\ UNCHANGED reqs
       ELSE hangup(i, "confirm_appointment")
    /\ UNCHANGED <<metadata, env, pc, dial_info, participant, session, far,
                   queue, nextHandle, turns>>

\* lines 149-166
confirm_appointment(i) ==
    /\ CanInvoke /\ NextSlot(i)
    /\ tools' = [tools EXCEPT ![i] =
          IF participant = NoParticipant
          THEN Raises("confirm_appointment", "AttributeError")
          ELSE Returns("confirm_appointment", "reservation confirmed")]
    /\ UNCHANGED <<metadata, env, pc, dial_info, participant, session, far,
                   queue, nextHandle, turns, reqs>>

\* ------------------------------------------------------ specification
Slots == 1..MaxTools

\* entrypoint and the session task it creates
NextEntry ==
    \/ Connect
    \/ Resolve
    \/ StartAndDial
    \/ DialAnswered
    \/ DialFailed
    \/ set_participant
    \/ SessionBegin
    \/ SessionRunning

Next ==
    \/ NextEntry
    \/ TurnStart
    \/ SpeechDone
    \/ \E i \in Slots : transfer_call(i)
    \/ \E i \in Slots : transfer_request(i)
    \/ \E i \in Slots : transfer_ok(i)
    \/ \E i \in Slots : transfer_failed(i)
    \/ \E i \in Slots : transfer_hangup(i)
    \/ \E i \in Slots : end_call(i)
    \/ \E i \in Slots : end_call_hangup(i)
    \/ \E i \in Slots : detected_answering_machine(i)
    \/ \E i \in Slots : delete_returned(i)
    \/ \E i \in Slots : look_up_availability(i)
    \/ \E i \in Slots : availability_returned(i)
    \/ \E i \in Slots : confirm_appointment(i)

Spec == Init /\ [][Next]_vars

\* metadata resolution and dialing, over every metadata input
SpecResolve == InitResolve /\ [][NextEntry]_vars

\* ------------------------------------------------------------ claims
\* slot j is invoked in this step
Invoked(j) == tools[j].pc = "idle" /\ tools'[j].pc # "idle"

\* slot i sends its delete-room request in this step
HangsUp(i) == tools[i].pc # "await_delete" /\ tools'[i].pc = "await_delete"

\* the results by which a tool declines to act
Rejections == {"call already ended", "cannot transfer call"}

\* the tool of slot j has declined: it returned a rejection and did nothing
Rejected(j) ==
    /\ tools'[j].pc = "done"
    /\ tools'[j].result \in Rejections
    /\ UNCHANGED <<reqs, queue, nextHandle>>

\* the call is answered, the participant bound, nothing has ended it
Active ==
    /\ participant = PhoneUser
    /\ far = "joined"
    /\ reqs.delete = 0
    /\ reqs.shutdown = 0

\* C1: an end_call invoked after an earlier end_call of the same session has
\* returned reports "call already ended" and sends no delete-room request, so
\* that the two invocations make one teardown.
C1_SecondEndCallRejected ==
    [][\A j \in Slots :
          (/\ Invoked(j)
           /\ tools'[j].name = "end_call"
           /\ \E i \in 1..(j - 1) : tools[i].name = "end_call" /\ tools[i].pc = "done")
          => (/\ tools'[j].pc = "done"
              /\ tools'[j].result = "call already ended"
              /\ reqs'.delete = reqs.delete)]_vars

\* C2: a transfer request is sent only by a transfer_call whose announcement,
\* the reply it asked the session for, has been delivered to the end.
C2_AnnounceBeforeTransfer ==
    [][reqs'.transfer > reqs.transfer =>
          \E i \in Slots :
             /\ tools[i].name = "transfer_call"
             /\ tools[i].pc = "await_announce"
             /\ tools'[i].pc = "await_transfer"
             /\ tools[i].h > 0
             /\ IsDone(tools[i].h)]_vars

\* a transfer request is out, after the announcement
C2_Witness ==
    \E i \in Slots : tools[i].pc = "await_transfer" /\ IsDone(tools[i].h)

\* the metadata names no phone_number: no such key, no such label in the text
LacksPhone(md) ==
    /\ md.dict["phone_number"] = Missing
    /\ \A k \in 1..Len(md.text) : md.text[k] # "phone_number"

\* C3: metadata without phone_number resolves to the configured default phone
\* number; with an empty default no dial request is issued and the job is shut
\* down for want of a number.
C3_MissingNumberUsesDefault ==
    (LacksPhone(metadata) /\ pc \notin {"start", "connected"}) =>
        /\ pc # "raised"
        /\ dial_info["phone_number"] = env.phone
        /\ env.phone = "" => reqs.dial = 0
        /\ (env.phone = "" /\ pc # "resolved") => (pc = "returned" /\ reqs.shutdown = 1)

\* the dial request was sent and entrypoint returned: the dial failed
DialHasFailed == pc = "returned" /\ reqs.dial = 1

\* C4: after a failed dial, transfer_call and detected_answering_machine are
\* declined: a defined rejection, no reply requested, no transfer, no teardown.
C4_NoToolAfterDialFailure ==
    [][\A j \in Slots :
          (/\ DialHasFailed
           /\ Invoked(j)
           /\ tools'[j].name \in {"transfer_call", "detected_answering_machine"})
          => Rejected(j)]_vars

\* C5: with no transfer destination in dial_info, transfer_call returns
\* "cannot transfer call" and changes nothing: no reply requested, no
\* request sent, the other tools and the call as they were, an Active call
\* still Active.
C5_NoDestinationNoEffect ==
    [][\A j \in Slots :
          (/\ Invoked(j)
           /\ tools'[j].name = "transfer_call"
           /\ Falsy(dial_info["transfer_to"]))
          => (/\ tools'[j].pc = "done"
              /\ tools'[j].result = "cannot transfer call"
              /\ UNCHANGED <<reqs, queue, nextHandle, participant, far, pc,
                             session, dial_info>>
              /\ \A k \in Slots \ {j} : tools'[k] = tools[k]
              /\ Active => Active')]_vars

\* transfer_call has declined for want of a destination, in an Active call
C5_Witness ==
    /\ Active
    /\ \E j \in Slots :
          /\ tools[j].name = "transfer_call"
          /\ tools[j].result = "cannot transfer call"

\* C6: once a transfer has succeeded, every tool invoked afterwards is
\* declined and sends nothing.
C6_NoToolAfterTransfer ==
    [][\A j \in Slots : (far = "transferred" /\ Invoked(j)) => Rejected(j)]_vars

\* C7: a transfer_call whose transfer request failed asks for an apology,
\* sends the delete-room request only once that apology is over, and returns
\* only after the delete-room request.
C7_FailedTransferApologizesThenHangsUp ==
    [][\A i \in Slots : tools[i].name = "transfer_call" =>
          /\ (tools[i].pc = "await_transfer" /\ tools'[i].pc # "await_transfer") =>
                \/ tools'[i].pc = "done" /\ far' = "transferred"
                \/ /\ tools'[i].pc = "await_apology"
                   /\ reqs'.reply = reqs.reply + 1
                   /\ \E k \in 1..Len(queue') : queue'[k] = tools'[i].h
                   /\ reqs'.delete = reqs.delete
          /\ (tools[i].pc = "await_apology" /\ tools'[i].pc # "await_apology") =>
                /\ IsDone(tools[i].h)
                /\ tools'[i].pc = "await_delete"
                /\ reqs'.delete = reqs.delete + 1
          /\ (tools[i].pc = "await_delete" /\ tools'[i].pc # "await_delete") =>
                tools'[i].pc = "done"]_vars

\* the provider refused the transfer, the apology was spoken, the room is
\* being deleted
C7_Witness ==
    \E i \in Slots :
       /\ tools[i].name = "transfer_call"
       /\ tools[i].pc = "await_delete"
       /\ reqs.transfer >= 1
       /\ far = "joined"
       /\ IsDone(tools[i].h)

\* C8: end_call invoked during a spoken turn waits for that turn, and sends
\* the delete-room request only once that turn is over.
C8_EndCallWaitsForSpeech ==
    [][\A i \in Slots : tools'[i].name = "end_call" =>
          /\ (Invoked(i) /\ current_speech # 0 /\ participant # NoParticipant) =>
                (tools'[i].pc = "await_speech" /\ tools'[i].h = current_speech)
          /\ (Invoked(i) /\ current_speech # 0) => reqs'.delete = reqs.delete
          /\ (tools[i].pc = "await_speech" /\ HangsUp(i)) => IsDone(tools[i].h)]_vars

\* end_call waited for the turn that was being spoken and then hung up
C8_Witness ==
    \E i \in Slots :
       /\ tools[i].name = "end_call"
       /\ tools[i].pc = "await_delete"
       /\ tools[i].h > 0
       /\ IsDone(tools[i].h)

\* C9 as claimed: no delete-room request is sent while a turn is being spoken.
C9_NoTeardownMidSpeech ==
    [][reqs'.delete > reqs.delete => queue = <<>>]_vars

\* C9 amended: end_call hangs up only after the turn that was being spoken
\* when it was invoked, a failed transfer_call only after its apology;
\* detected_answering_machine hangs up in the step that invokes it.
C9_TeardownAfterOwnSpeech ==
    [][\A i \in Slots : HangsUp(i) =>
          \/ /\ tools'[i].name = "end_call"
             /\ \/ tools[i].pc = "idle" /\ current_speech = 0
                \/ tools[i].pc = "await_speech" /\ IsDone(tools[i].h)
          \/ /\ tools'[i].name = "transfer_call"
             /\ tools[i].pc = "await_apology"
             /\ IsDone(tools[i].h)
          \/ /\ tools'[i].name = "detected_answering_machine"
             /\ tools[i].pc = "idle"]_vars

\* a hang-up after an apology while another turn is still queued, or
\* an end_call hang-up that waited
C9_Witness ==
    \E i \in Slots :
       /\ tools[i].pc = "await_delete"
       /\ tools[i].name \in {"end_call", "transfer_call"}
       /\ tools[i].h > 0
       /\ queue # <<>>

\* C10: whenever a dial request has been sent the task of session.start had
\* been created first, and while the dial awaits its answer that task is
\* free to run.
C10_SessionStartBeforeDial ==
    /\ reqs.dial > 0 => (reqs.session_start > 0 /\ session # "none")
    /\ (pc = "dialing" /\ session = "requested") => ENABLED SessionBegin

\* the session task has begun while the dial is still waiting for an answer
C10_Witness == pc = "dialing" /\ session = "starting" /\ reqs.dial = 1

\* the tools that end the controller's part in the call
Terminating == {"transfer_call", "end_call", "detected_answering_machine"}

\* slot i is suspended at one of its awaits
Suspended(i) ==
    tools[i].pc \in {"await_announce", "await_transfer", "await_apology",
                     "await_speech", "await_delete"}

\* C11: a terminating tool the session dispatches while an earlier terminating
\* tool is suspended at an await is declined, not run and not queued.
C11_OneTerminatingToolInFlight ==
    [][\A j \in Slots :
          (/\ Invoked(j)
           /\ tools'[j].name \in Terminating
           /\ tools'[j].via = "session"
           /\ \E i \in 1..(j - 1) : tools[i].name \in Terminating /\ Suspended(i))
          => Rejected(j)]_vars

\* the call has ended: the job was shut down, the room deleted, or the far
\* end handed over to the transfer destination
Ended == reqs.shutdown > 0 \/ reqs.delete > 0 \/ far = "transferred"

\* C12: in an ended call each of the five tools the session dispatches returns
\* "call already ended" and does nothing, and an ended call stays ended.
C12_EndedCallRefusesTools ==
    [][/\ Ended => Ended'
       /\ \A j \in Slots :
             (Ended /\ Invoked(j) /\ tools'[j].via = "session") =>
                 /\ tools'[j].pc = "done"
                 /\ tools'[j].result = "call already ended"
                 /\ UNCHANGED <<reqs, queue, nextHandle>>]_vars

\* C13: whatever the metadata, resolution does not raise and leaves a
\* dial_info with phone_number, transfer_to and prospect_name all set.
C13_ResolutionNeverRaises ==
    /\ pc # "raised"
    /\ pc \notin {"start", "connected"} => \A k \in Keys : dial_info[k] # Missing

\* the tools whose first statement reads self.participant.identity
ReadsParticipantAtOnce ==
    {"end_call", "look_up_availability", "confirm_appointment",
     "detected_answering_machine"}

\* C14: when the session dispatches a tool that reads the participant, at its
\* invocation or, for transfer_call, when it builds the transfer request, the
\* participant has been bound by set_participant.
C14_ToolsAfterParticipantBound ==
    [][\A j \in Slots :
          /\ (/\ Invoked(j)
              /\ tools'[j].via = "session"
              /\ tools'[j].name \in ReadsParticipantAtOnce)
             => participant = PhoneUser
          /\ (/\ tools[j].via = "session"
              /\ tools[j].pc = "await_announce"
              /\ tools'[j].pc # "await_announce")
             => participant = PhoneUser]_vars

\* C15 as claimed: a call that has ended, by the job being shut down or by a
\* tool that disconnects it, has had a delete-room request.
C15_EveryEndIsTeardown ==
    /\ reqs.shutdown > 0 => reqs.delete > 0
    /\ \A i \in Slots :
          (tools[i].pc = "done" /\ tools[i].name \in {"end_call", "detected_answering_machine"})
             => reqs.delete > 0

\* C15 amended: the tools end the call by a delete-room request and by
\* nothing else; entrypoint, for want of a number or after a failed dial,
\* ends it by shutting the job down and sends no delete-room request.
C15_ToolsTearDownEntrypointShutsDown ==
    [][/\ reqs'.delete > reqs.delete =>
             /\ \E i \in Slots : HangsUp(i)
             /\ reqs'.delete = reqs.delete + 1
             /\ reqs'.shutdown = reqs.shutdown
       /\ reqs'.shutdown > reqs.shutdown =>
             /\ pc \in {"resolved", "dialing"} /\ pc' = "returned"
             /\ reqs'.delete = reqs.delete
             /\ tools' = tools
       /\ (pc # "returned" /\ pc' = "returned") => reqs'.shutdown = reqs.shutdown + 1
       /\ \A i \in Slots :
             (/\ tools'[i].name \in {"end_call", "detected_answering_machine"}
              /\ tools[i].pc # "done" /\ tools'[i].pc = "done")
             => (tools[i].pc = "await_delete" /\ reqs.delete > 0)]_vars

\* the call ended by the job's shutdown, with no delete-room request
C15_Witness == pc = "returned" /\ reqs.shutdown = 1 /\ reqs.delete = 0

\* C16: one dial request at most; a failed dial ends entrypoint with the job
\* shut down, no second dial request and no wait for a participant.
C16_NoDialRetry ==
    [][/\ reqs'.dial <= 1
       /\ (pc = "dialing" /\ pc' # "dialing") =>
             \/ pc' = "joining" /\ far' = "joined" /\ reqs' = reqs
             \/ /\ pc' = "returned"
                /\ reqs' = Issue(reqs, "shutdown")
                /\ far' = far /\ participant' = participant
       /\ pc = "returned" => (pc' = "returned" /\ reqs'.dial = reqs.dial
                              /\ participant' = participant)]_vars

\* the dial failed and entrypoint is over, nobody bound
C16_Witness == DialHasFailed /\ participant = NoParticipant /\ far = "absent"

\* the tools that only answer
Pure == {"look_up_availability", "confirm_appointment"}

\* C17: look_up_availability and confirm_appointment change nothing of the
\* call (no request, no speech, participant, dial_info and the other tools as
\* they were, an Active call still Active); invoked in an Active call they
\* return the three time slots, after the sleep, and "reservation confirmed".
C17_PureTools ==
    [][\A j \in Slots :
          (tools'[j].name \in Pure /\ tools'[j] # tools[j]) =>
             /\ UNCHANGED <<reqs, queue, nextHandle, participant, dial_info, far,
                            pc, session>>
             /\ \A k \in Slots \ {j} : tools'[k] = tools[k]
             /\ Active => Active'
             /\ (Active /\ Invoked(j) /\ tools'[j].name = "confirm_appointment") =>
                   (tools'[j].pc = "done" /\ tools'[j].result = "reservation confirmed")
             /\ (Active /\ Invoked(j) /\ tools'[j].name = "look_up_availability") =>
                   tools'[j].pc = "sleeping"
             /\ tools[j].pc = "sleeping" =>
                   (tools'[j].pc = "done" /\ tools'[j].result = "1pm,2pm,3pm")]_vars

\* both answers were given in a call that is still Active
C17_Witness ==
    /\ Active
    /\ \E i, j \in Slots :
          /\ tools[i].result = "1pm,2pm,3pm"
          /\ tools[j].result = "reservation confirmed"

\* C18: detected_answering_machine invoked in an Active call sends the
\* delete-room request in that very step, asks the session for no reply and
\* sends no transfer request, then and until it returns.
C18_VoicemailHangsUpDirectly ==
    [][\A j \in Slots : tools'[j].name = "detected_answering_machine" =>
          /\ (Active /\ Invoked(j)) =>
                /\ tools'[j].pc = "await_delete"
                /\ reqs' = Issue(reqs, "delete")
                /\ UNCHANGED <<queue, nextHandle>>
          /\ (tools[j].pc = "await_delete" /\ tools'[j] # tools[j]) =>
                (tools'[j].pc = "done" /\ UNCHANGED <<reqs, queue, nextHandle>>)]_vars

\* the voicemail hang-up is out, with no reply ever requested
C18_Witness ==
    \E j \in Slots :
       /\ tools[j].name = "detected_answering_machine"
       /\ tools[j].pc = "await_delete"
       /\ reqs.delete = 1 /\ reqs.reply = 0 /\ reqs.transfer = 0

\* C19: once dial_info is resolved and entrypoint has gone on, the task of
\* session.start has been created, also when there was no number to dial;
\* from then on it is never taken back, whatever entrypoint does.
C19_SessionStartAlwaysRequested ==
    [][/\ pc' \in {"dialing", "joining", "done", "returned"} =>
             (reqs'.session_start = 1 /\ session' # "none")
       /\ session # "none" => session' \in {session, "starting", "running"}
       /\ (pc = "resolved" /\ pc' = "returned") =>
             (session' = "requested" /\ reqs'.dial = 0)]_vars

\* no number, the job shut down, and the session task running on
C19_Witness ==
    /\ pc = "returned" /\ reqs.dial = 0 /\ reqs.shutdown = 1
    /\ session = "starting"

\* C20: a phone_number or transfer_to that the metadata holds, be it empty,
\* is kept; the defaults fill absent keys only; an empty phone_number in the
\* metadata means no dial request, whatever the default.
C20_DefaultsOnlyForAbsentKeys ==
    LET d == parse_metadata(metadata)
    IN  (d.type = "object" /\ pc \notin {"start", "connected"}) =>
           /\ \A k \in {"phone_number", "transfer_to"} :
                 /\ d.obj[k] # Missing => dial_info[k] = d.obj[k]
                 /\ d.obj[k] = Missing =>
                       dial_info[k] = (IF k = "phone_number" THEN env.phone ELSE env.transfer)
           /\ (d.obj["phone_number"] # Missing /\ Falsy(d.obj["phone_number"])) =>
                 (reqs.dial = 0 /\ pc \in {"resolved", "returned"})

\* an empty phone_number in the metadata, a default at hand, and no dial
C20_Witness ==
    /\ parse_metadata(metadata).obj["phone_number"] = ""
    /\ env.phone = EnvPhone
    /\ pc = "returned"
    /\ reqs.dial = 0

====
